---- MODULE Spec2Model ----
(***************************************************************************)
(* A model of the gosql lexer (lexer.go).  Source texts are sequences of   *)
(* byte values (Go indexes a string by byte); Cursor.Pointer is the Go     *)
(* zero-based offset, so source[Pointer + 1] is the byte under the cursor. *)
(***************************************************************************)
EXTENDS Integers, Sequences, FiniteSets, TLC

VARIABLES source, cur, tokens, pc, result, err, applied,
          lmSource, lmIc, lmOptions, lmValue, lmMatch, lmSkip, lmPtr, lmPc

\* source, cur, tokens: the argument and the locals of lex.  pc: where lex
\* is ("lexing" in its loop, "done" and "error" after its two returns,
\* "panic" after a run-time panic).  result, err: what lex returned.
\* applied: how many lexer applications the loop has accepted so far.
\* lmSource, lmIc, lmOptions: the arguments of a longestMatch call; lmValue,
\* lmMatch, lmSkip, lmPtr: its locals value, match, skip and cur.Pointer;
\* lmPc: where it is ("loop", "done" after its return, "panic").
vars == <<source, cur, tokens, pc, result, err, applied,
          lmSource, lmIc, lmOptions, lmValue, lmMatch, lmSkip, lmPtr, lmPc>>

lexVars == <<source, cur, tokens, pc, result, err, applied>>

lmVars == <<lmSource, lmIc, lmOptions, lmValue, lmMatch, lmSkip, lmPtr, lmPc>>

-----------------------------------------------------------------------------
(* Bytes and strings *)

LowerLetters == <<"a","b","c","d","e","f","g","h","i","j","k","l","m",
                  "n","o","p","q","r","s","t","u","v","w","x","y","z">>

UpperLetters == <<"A","B","C","D","E","F","G","H","I","J","K","L","M",
                  "N","O","P","Q","R","S","T","U","V","W","X","Y","Z">>

Digits == <<"0","1","2","3","4","5","6","7","8","9">>

Punctuation == <<"\t", "\n", " ", "\"", "#", "$", "'", "(", ")", "*", "+",
                 ",", "-", ".", ";", "_">>

PunctuationCodes == <<9, 10, 32, 34, 35, 36, 39, 40, 41, 42, 43,
                      44, 45, 46, 59, 95>>

\* The ASCII table: the code of each one-character string used here.
Ascii ==
    [c \in {LowerLetters[i] : i \in 1..26} \cup {UpperLetters[i] : i \in 1..26}
           \cup {Digits[i] : i \in 1..10} \cup {Punctuation[i] : i \in 1..16} |->
        IF \E i \in 1..26 : LowerLetters[i] = c
        THEN 96 + (CHOOSE i \in 1..26 : LowerLetters[i] = c)
        ELSE IF \E i \in 1..26 : UpperLetters[i] = c
        THEN 64 + (CHOOSE i \in 1..26 : UpperLetters[i] = c)
        ELSE IF \E i \in 1..10 : Digits[i] = c
        THEN 47 + (CHOOSE i \in 1..10 : Digits[i] = c)
        ELSE PunctuationCodes[CHOOSE i \in 1..16 : Punctuation[i] = c]]

Chr(c) == Ascii[c]

\* A Go string literal, given as a tuple of its characters, as bytes.
RECURSIVE Str(_)
Str(s) == IF s = <<>> THEN <<>> ELSE <<Chr(Head(s))>> \o Str(Tail(s))

\* The byte literals the lexers compare against ('A', 'Z', 'a', 'z', '0',
\* '9', '.', 'e', '-', '+', '\'', '"', '\n', '\t', ' ', '$', '_').
UpperA == 65
UpperZ == 90
LowerA == 97
LowerZ == 122
Digit0 == 48
Digit9 == 57
Period == 46
ExpMarker == 101
Minus == 45
Plus == 43
Apostrophe == 39
DoubleQuote == 34
Newline == 10
Tab == 9
Space == 32
Dollar == 36
Underscore == 95

\* strings.ToLower on one ASCII byte, and on a string.
ToLowerByte(c) == IF c >= UpperA /\ c <= UpperZ THEN c + 32 ELSE c

RECURSIVE ToLower(_)
ToLower(s) ==
    IF s = <<>> THEN <<>> ELSE <<ToLowerByte(Head(s))>> \o ToLower(Tail(s))

\* src[from:to] with Go's zero-based, half-open bounds.
Slice(s, from, to) == SubSeq(s, from + 1, to)

-----------------------------------------------------------------------------
(* Keywords, symbols, token kinds *)

SelectKeyword == Str(<<"s","e","l","e","c","t">>)
FromKeyword   == Str(<<"f","r","o","m">>)
AsKeyword     == Str(<<"a","s">>)
TableKeyword  == Str(<<"t","a","b","l","e">>)
CreateKeyword == Str(<<"c","r","e","a","t","e">>)
InsertKeyword == Str(<<"i","n","s","e","r","t">>)
IntoKeyword   == Str(<<"i","n","t","o">>)
ValuesKeyword == Str(<<"v","a","l","u","e","s">>)
IntKeyword    == Str(<<"i","n","t">>)
TextKeyword   == Str(<<"t","e","x","t">>)

SemicolonSymbol  == Str(<<";">>)
AsteriskSymbol   == Str(<<"*">>)
CommaSymbol      == Str(<<",">>)
LeftParenSymbol  == Str(<<"(">>)
RightParenSymbol == Str(<<")">>)

KeywordKind    == "Keyword"
SymbolKind     == "Symbol"
IdentifierKind == "Identifier"
StringKind     == "String"
NumericKind    == "Numeric"

\* The keyword list of lexKeyword and the symbol list of lexSymbol, in order.
keywords == <<SelectKeyword, FromKeyword, AsKeyword, TableKeyword,
              CreateKeyword, InsertKeyword, IntoKeyword, ValuesKeyword,
              IntKeyword, TextKeyword>>

symbols == <<CommaSymbol, LeftParenSymbol, RightParenSymbol,
             SemicolonSymbol, AsteriskSymbol>>

Location(line, col) == [Line |-> line, Col |-> col]

Cursor(pointer, loc) == [Pointer |-> pointer, Loc |-> loc]

Token(value, kind, loc) == [Value |-> value, Kind |-> kind, Loc |-> loc]

\* Go's nil (a nil *Token, a nil token slice, a nil error) and a non-nil
\* reference to x.
Nil == <<>>

Ptr(x) == <<x>>

\* What a lexer returns: (*Token, Cursor, bool); panic marks a run-time panic
\* (index or slice out of range) raised while it ran.
Ret(token, cursor, ok) ==
    [token |-> token, cur |-> cursor, ok |-> ok, panic |-> FALSE]

PanicRet(ic) == [token |-> Nil, cur |-> ic, ok |-> FALSE, panic |-> TRUE]

-----------------------------------------------------------------------------
(* longestMatch *)

\* A recording that keeps the first equality found instead of the latest.
recordMatch_keepFirst(match, option) == IF match = <<>> THEN option ELSE match

\* The assignment made when an option equals the probe.
recordMatch(match, option) == option

\* An inner loop that prunes an option only when it equals the probe, not
\* when it stops sharing the probe as prefix.
RECURSIVE matchOptions_keepMismatch(_, _, _, _, _)
matchOptions_keepMismatch(options, i, value, skip, match) ==
    IF i > Len(options)
    THEN [skip |-> skip, match |-> match, panic |-> FALSE]
    ELSE LET option == options[i] IN
         IF option \in skip
         THEN matchOptions_keepMismatch(options, i + 1, value, skip, match)
         ELSE IF option = value
         THEN matchOptions_keepMismatch(options, i + 1, value,
                                        skip \cup {option},
                                        recordMatch(match, option))
         ELSE IF Len(value) > Len(option)
         THEN [skip |-> skip, match |-> match, panic |-> TRUE]
         ELSE matchOptions_keepMismatch(options, i + 1, value, skip, match)

\* The inner loop over options[i..] for the probe value: the skip set and
\* the match after it, or a panic when option[:len(value)] is out of range.
RECURSIVE matchOptions(_, _, _, _, _)
matchOptions(options, i, value, skip, match) ==
    IF i > Len(options)
    THEN [skip |-> skip, match |-> match, panic |-> FALSE]
    ELSE LET option == options[i] IN
         IF option \in skip
         THEN matchOptions(options, i + 1, value, skip, match)
         ELSE IF option = value
         THEN matchOptions(options, i + 1, value, skip \cup {option},
                           recordMatch(match, option))
         ELSE IF Len(value) > Len(option)
         THEN [skip |-> skip, match |-> match, panic |-> TRUE]
         ELSE LET sharesPrefix == value = SubSeq(option, 1, Len(value))
                  tooLong      == Len(value) > Len(option)
              IN  matchOptions(options, i + 1, value,
                               IF tooLong \/ ~sharesPrefix
                               THEN skip \cup {option} ELSE skip,
                               match)

\* What one iteration of the outer loop leaves for the probe v, given the
\* inner loop's result r: the loop breaks (done) when every option is in
\* skip.
stepResult(v, r, options) ==
    [value |-> v, match |-> r.match, skip |-> r.skip, panic |-> r.panic,
     done  |-> ~r.panic /\ Cardinality(r.skip) = Len(options)]

scanProbe(v, options, match, skip) ==
    stepResult(v, matchOptions(options, 1, v, skip, match), options)

\* An iteration that grows the probe by the byte as it stands in the source.
matchStep_noLower(src, ptr, options, value, match, skip) ==
    scanProbe(Append(value, src[ptr + 1]), options, match, skip)

\* One iteration of the outer loop at offset ptr: the probe grows by the
\* lower-cased byte and the options are scanned.
matchStep(src, ptr, options, value, match, skip) ==
    scanProbe(Append(value, ToLowerByte(src[ptr + 1])), options, match, skip)

RECURSIVE matchLoop(_, _, _, _, _, _)
\* The outer loop after the iteration at ptr left s.
matchLoopAfter(src, ptr, options, s) ==
    IF s.panic THEN [match |-> s.match, panic |-> TRUE]
    ELSE IF s.done THEN [match |-> s.match, panic |-> FALSE]
    ELSE matchLoop(src, ptr + 1, options, s.value, s.match, s.skip)

matchLoop(src, ptr, options, value, match, skip) ==
    IF ptr < Len(src)
    THEN matchLoopAfter(src, ptr, options,
                        matchStep(src, ptr, options, value, match, skip))
    ELSE [match |-> match, panic |-> FALSE]

longestMatch(src, ic, options) ==
    matchLoop(src, ic.Pointer, options, <<>>, <<>>, {})

-----------------------------------------------------------------------------
(* longestMatch of the earlier revision (unnamed/part_000): an equal option  *)
(* is recorded only when it is longer than the recorded match                *)

prevRecordMatch(match, option) ==
    IF Len(option) > Len(match) THEN option ELSE match

RECURSIVE prevMatchOptions(_, _, _, _, _)
prevMatchOptions(options, i, value, skip, match) ==
    IF i > Len(options)
    THEN [skip |-> skip, match |-> match, panic |-> FALSE]
    ELSE LET option == options[i] IN
         IF option \in skip
         THEN prevMatchOptions(options, i + 1, value, skip, match)
         ELSE IF option = value
         THEN prevMatchOptions(options, i + 1, value, skip \cup {option},
                               prevRecordMatch(match, option))
         ELSE IF Len(value) > Len(option)
         THEN [skip |-> skip, match |-> match, panic |-> TRUE]
         ELSE LET sharesPrefix == value = SubSeq(option, 1, Len(value))
                  tooLong      == Len(value) > Len(option)
              IN  prevMatchOptions(options, i + 1, value,
                                   IF tooLong \/ ~sharesPrefix
                                   THEN skip \cup {option} ELSE skip,
                                   match)

prevScanProbe(v, options, match, skip) ==
    stepResult(v, prevMatchOptions(options, 1, v, skip, match), options)

prevMatchStep(src, ptr, options, value, match, skip) ==
    prevScanProbe(Append(value, ToLowerByte(src[ptr + 1])), options, match,
                  skip)

RECURSIVE prevMatchLoop(_, _, _, _, _, _)
prevMatchLoopAfter(src, ptr, options, s) ==
    IF s.panic THEN [match |-> s.match, panic |-> TRUE]
    ELSE IF s.done THEN [match |-> s.match, panic |-> FALSE]
    ELSE prevMatchLoop(src, ptr + 1, options, s.value, s.match, s.skip)

prevMatchLoop(src, ptr, options, value, match, skip) ==
    IF ptr < Len(src)
    THEN prevMatchLoopAfter(src, ptr, options,
                            prevMatchStep(src, ptr, options, value, match,
                                          skip))
    ELSE [match |-> match, panic |-> FALSE]

prevLongestMatch(src, ic, options) ==
    prevMatchLoop(src, ic.Pointer, options, <<>>, <<>>, {})

-----------------------------------------------------------------------------
(* The five lexers *)

\* lexKeyword once longestMatch has returned r.
keywordToken(r, ic) ==
    IF r.panic THEN PanicRet(ic)
    ELSE IF r.match = <<>> THEN Ret(Nil, ic, FALSE)
    ELSE Ret(Ptr(Token(r.match, KeywordKind, ic.Loc)),
             Cursor(ic.Pointer + Len(r.match),
                    Location(ic.Loc.Line, ic.Loc.Col + Len(r.match))),
             TRUE)

\* A lexKeyword that declines when a letter follows the keyword it matched.
wordBoundary(r, src, ic) ==
    IF r.ok /\ r.cur.Pointer < Len(src)
            /\ ToLowerByte(src[r.cur.Pointer + 1]) \in LowerA..LowerZ
    THEN Ret(Nil, ic, FALSE)
    ELSE r

lexKeyword_wordBoundary(src, ic) ==
    wordBoundary(keywordToken(longestMatch(src, ic, keywords), ic), src, ic)

lexKeyword(src, ic) == keywordToken(longestMatch(src, ic, keywords), ic)

\* A lexSymbol that returns the cursor it was given when it discards white
\* space.
lexSymbol_noAdvance(src, ic) ==
    LET c == src[ic.Pointer + 1] IN
    IF c = Newline \/ c = Tab \/ c = Space THEN Ret(Nil, ic, TRUE)
    ELSE Ret(Nil, ic, FALSE)

\* A lexSymbol that hands back its advanced cursor when no symbol matches.
symbolToken_advancedCursor(r, ic) ==
    IF r.panic THEN PanicRet(ic)
    ELSE IF r.match = <<>>
    THEN Ret(Nil, Cursor(ic.Pointer + 1,
                         Location(ic.Loc.Line, ic.Loc.Col + 1)), FALSE)
    ELSE Ret(Ptr(Token(r.match, SymbolKind, ic.Loc)),
             Cursor(ic.Pointer + Len(r.match),
                    Location(ic.Loc.Line, ic.Loc.Col + Len(r.match))),
             TRUE)

\* lexSymbol once longestMatch has returned r.
symbolToken(r, ic) ==
    IF r.panic THEN PanicRet(ic)
    ELSE IF r.match = <<>> THEN Ret(Nil, ic, FALSE)
    ELSE Ret(Ptr(Token(r.match, SymbolKind, ic.Loc)),
             Cursor(ic.Pointer + Len(r.match),
                    Location(ic.Loc.Line, ic.Loc.Col + Len(r.match))),
             TRUE)

\* A lexSymbol that treats a newline like a tab or a space.
lexSymbol_newlineAsSpace(src, ic) ==
    LET c == src[ic.Pointer + 1] IN
    IF c = Newline \/ c = Tab \/ c = Space
    THEN Ret(Nil, Cursor(ic.Pointer + 1,
                         Location(ic.Loc.Line, ic.Loc.Col + 1)), TRUE)
    ELSE symbolToken(longestMatch(src, ic, symbols), ic)

lexSymbol(src, ic) ==
    LET c == src[ic.Pointer + 1] IN
    IF c = Newline
    THEN Ret(Nil, Cursor(ic.Pointer + 1, Location(ic.Loc.Line + 1, 0)), TRUE)
    ELSE IF c = Tab \/ c = Space
    THEN Ret(Nil, Cursor(ic.Pointer + 1,
                         Location(ic.Loc.Line, ic.Loc.Col + 1)), TRUE)
    ELSE symbolToken(longestMatch(src, ic, symbols), ic)

\* The scan loop of lexCharacterDelimited from offset ptr, column col.
RECURSIVE delimitedLoop(_, _, _, _, _, _)
delimitedLoop(src, ic, delimiter, ptr, col, value) ==
    IF ptr < Len(src)
    THEN LET c == src[ptr + 1] IN
         IF c = delimiter
         THEN IF ptr + 1 >= Len(src) \/ src[ptr + 2] # delimiter
              THEN Ret(Ptr(Token(value, StringKind, ic.Loc)),
                       Cursor(ptr, Location(ic.Loc.Line, col)), TRUE)
              ELSE delimitedLoop(src, ic, delimiter, ptr + 2, col + 2,
                                 value \o <<delimiter, c>>)
         ELSE delimitedLoop(src, ic, delimiter, ptr + 1, col + 1,
                            Append(value, c))
    ELSE Ret(Nil, ic, FALSE)

lexCharacterDelimited(src, ic, delimiter) ==
    IF Len(src) - ic.Pointer = 0 THEN Ret(Nil, ic, FALSE)
    ELSE IF src[ic.Pointer + 1] # delimiter THEN Ret(Nil, ic, FALSE)
    ELSE delimitedLoop(src, ic, delimiter, ic.Pointer + 1,
                       ic.Loc.Col + 1, <<>>)

lexString(src, ic) == lexCharacterDelimited(src, ic, Apostrophe)

\* A lexNumeric that leaves a sign after the exponent marker unread.
expSign_none(src, ptr) == 0

\* The bytes lexNumeric skips after the exponent marker at offset ptr: one
\* for a sign that follows it, none otherwise.
expSign(src, ptr) ==
    LET cNext == src[ptr + 2] IN
    IF cNext = Minus \/ cNext = Plus THEN 1 ELSE 0

\* The scan loop of lexNumeric from offset ptr, with col the column before
\* the byte at ptr is looked at.
RECURSIVE numericLoop(_, _, _, _, _, _)
numericLoop(src, ic, ptr, col, periodFound, expMarkerFound) ==
    IF ptr < Len(src)
    THEN LET c           == src[ptr + 1]
             col1        == col + 1
             isDigit     == c >= Digit0 /\ c <= Digit9
             isPeriod    == c = Period
             isExpMarker == c = ExpMarker
         IN  IF ptr = ic.Pointer
             THEN IF ~isDigit /\ ~isPeriod
                  THEN [ok |-> FALSE, Pointer |-> ptr, Col |-> col1]
                  ELSE numericLoop(src, ic, ptr + 1, col1, isPeriod,
                                   expMarkerFound)
             ELSE IF isPeriod
             THEN IF periodFound
                  THEN [ok |-> FALSE, Pointer |-> ptr, Col |-> col1]
                  ELSE numericLoop(src, ic, ptr + 1, col1, TRUE,
                                   expMarkerFound)
             ELSE IF isExpMarker
             THEN IF expMarkerFound
                  THEN [ok |-> FALSE, Pointer |-> ptr, Col |-> col1]
                  ELSE IF ptr = Len(src) - 1
                  THEN [ok |-> FALSE, Pointer |-> ptr, Col |-> col1]
                  ELSE numericLoop(src, ic, ptr + 1 + expSign(src, ptr),
                                   col1 + expSign(src, ptr), TRUE, TRUE)
             ELSE IF ~isDigit
             THEN [ok |-> TRUE, Pointer |-> ptr, Col |-> col1]
             ELSE numericLoop(src, ic, ptr + 1, col1, periodFound,
                              expMarkerFound)
    ELSE [ok |-> TRUE, Pointer |-> ptr, Col |-> col]

\* A lexNumeric that ends the number in front of a glyph it rejects (a
\* second period or exponent marker) instead of declining.
numericToken_acceptPartial(src, ic, r) ==
    IF r.Pointer = ic.Pointer THEN Ret(Nil, ic, FALSE)
    ELSE Ret(Ptr(Token(Slice(src, ic.Pointer, r.Pointer), NumericKind,
                       ic.Loc)),
             Cursor(r.Pointer, Location(ic.Loc.Line, r.Col)), TRUE)

\* lexNumeric once its loop has ended with r.
numericToken(src, ic, r) ==
    IF ~r.ok THEN Ret(Nil, ic, FALSE)
    ELSE IF r.Pointer = ic.Pointer THEN Ret(Nil, ic, FALSE)
    ELSE Ret(Ptr(Token(Slice(src, ic.Pointer, r.Pointer), NumericKind,
                       ic.Loc)),
             Cursor(r.Pointer, Location(ic.Loc.Line, r.Col)), TRUE)

lexNumeric(src, ic) ==
    numericToken(src, ic,
                 numericLoop(src, ic, ic.Pointer, ic.Loc.Col, FALSE, FALSE))

isAlphabetical(c) ==
    (c >= UpperA /\ c <= UpperZ) \/ (c >= LowerA /\ c <= LowerZ)

\* A continuation class that takes every digit, 0 included.
isAlphaNumeric_withZero(c) == isAlphabetical(c) \/ (c >= Digit0 /\ c <= Digit9)

isAlphaNumeric(c) == isAlphabetical(c) \/ (c > Digit0 /\ c <= Digit9)

\* The continuation loop of lexIdentifier from offset ptr, column col.
RECURSIVE identifierLoop(_, _, _, _)
identifierLoop(src, ptr, col, value) ==
    IF ptr < Len(src)
    THEN LET c == src[ptr + 1] IN
         IF isAlphaNumeric(c) \/ c = Dollar \/ c = Underscore
         THEN identifierLoop(src, ptr + 1, col + 1, Append(value, c))
         ELSE [Pointer |-> ptr, Col |-> col, value |-> value]
    ELSE [Pointer |-> ptr, Col |-> col, value |-> value]

\* A lexIdentifier that keeps the case of the text it matched.
identifierToken_raw(ic, r) ==
    IF Len(r.value) = 0 THEN Ret(Nil, ic, FALSE)
    ELSE Ret(Ptr(Token(r.value, IdentifierKind, ic.Loc)),
             Cursor(r.Pointer, Location(ic.Loc.Line, r.Col)), TRUE)

\* lexIdentifier once its loop has ended with r.
identifierToken(ic, r) ==
    IF Len(r.value) = 0 THEN Ret(Nil, ic, FALSE)
    ELSE Ret(Ptr(Token(ToLower(r.value), IdentifierKind, ic.Loc)),
             Cursor(r.Pointer, Location(ic.Loc.Line, r.Col)), TRUE)

\* lexIdentifier after the double-quoted attempt declined.
unquotedIdentifier(src, ic) ==
    LET c == src[ic.Pointer + 1] IN
    IF ~isAlphabetical(c) THEN Ret(Nil, ic, FALSE)
    ELSE identifierToken(ic, identifierLoop(src, ic.Pointer + 1,
                                            ic.Loc.Col + 1, <<c>>))

\* lexIdentifier once the double-quoted attempt has returned q.
quotedOr(q, src, ic) == IF q.ok THEN q ELSE unquotedIdentifier(src, ic)

lexIdentifier(src, ic) ==
    quotedOr(lexCharacterDelimited(src, ic, DoubleQuote), src, ic)

-----------------------------------------------------------------------------
(* The driver loop of lex *)

\* The order of an earlier revision, the identifier lexer first.
lexers_identifierFirst == <<"lexIdentifier", "lexKeyword", "lexNumeric",
                            "lexString", "lexSymbol">>

\* The lexers in the order lex tries them.
lexers == <<"lexKeyword", "lexSymbol", "lexString", "lexNumeric",
            "lexIdentifier">>

Apply(l, src, c) ==
    CASE l = "lexKeyword"    -> lexKeyword(src, c)
      [] l = "lexSymbol"     -> lexSymbol(src, c)
      [] l = "lexString"     -> lexString(src, c)
      [] l = "lexNumeric"    -> lexNumeric(src, c)
      [] l = "lexIdentifier" -> lexIdentifier(src, c)

RECURSIVE tryLexers(_, _, _)
\* The inner loop of lex once the i-th lexer has returned r.
tried(src, c, i, r) ==
    IF r.panic THEN [kind |-> "panic", lexer |-> lexers[i], ret |-> r]
    ELSE IF r.ok THEN [kind |-> "ok", lexer |-> lexers[i], ret |-> r]
    ELSE tryLexers(src, c, i + 1)

\* The inner loop of lex from the i-th lexer on: the first lexer that
\* succeeds and what it returned, or "none" when all declined.
tryLexers(src, c, i) ==
    IF i > Len(lexers)
    THEN [kind |-> "none", lexer |-> "", ret |-> Ret(Nil, c, FALSE)]
    ELSE tried(src, c, i, Apply(lexers[i], src, c))

\* " after ", the prefix of the error's hint.
After == Str(<<" ","a","f","t","e","r"," ">>)

\* The value of fmt.Errorf("Unable to lex token %s at %d:%d", ...): its
\* three arguments.
Errorf(hint, line, col) == [hint |-> hint, Line |-> line, Col |-> col]

-----------------------------------------------------------------------------
(* Source texts *)

\* Longest source text drawn from Alphabet.
MaxLen == 3

\* Bytes of the drawn source texts: letters in both cases, digits, the
\* numeric glyphs, both delimiters, white space, a symbol; "-" on its own is
\* accepted by no lexer.
Alphabet == {Chr("a"), Chr("S"), Chr("e"), Chr("0"), Chr("1"), Chr("."),
             Chr("-"), Chr("'"), Chr("\""), Chr("\n"), Chr(" "), Chr(",")}

SeqsUpTo(S, n) == UNION {[1..k -> S] : k \in 0..n}

\* Every spelling of the string w in upper and lower case.
RECURSIVE CaseVariants(_)
CaseVariants(w) ==
    IF w = <<>> THEN {<<>>}
    ELSE {<<c>> \o t : c \in {w[1], w[1] - 32}, t \in CaseVariants(Tail(w))}

SelectStarSrc == Str(<<"s","e","l","e","c","t"," ","*"," ","f","r","o","m",
                       " ","f","o","o",";">>)

CreateTableSrc == Str(<<"c","r","e","a","t","e"," ","t","a","b","l","e"," ",
                        "f","o","o"," ","(","i","d"," ","i","n","t",","," ",
                        "n","a","m","e"," ","t","e","x","t",")",";">>)

SelectHashSrc == Str(<<"s","e","l","e","c","t"," ","#"," ","f","r","o","m",
                       " ","f","o","o",";">>)

ItsSrc == Str(<<"'","i","t","'","'","s","'">>)

QuotedIdentSrc == Str(<<"\"","a","\"","\"","b","\"">>)

TwoPeriodsSrc == Str(<<"1",".","2",".","3">>)

ExponentSrc == Str(<<"1",".","5","e","-","1","0">>)

WhiteSpaceSrc == Str(<<"a","\t","a","\n"," ","a">>)

IdentifierSrc == Str(<<"B","_","$","9","0","b">>)

AbcSrc == Str(<<"'","a","b","c","'">>)

IntegerSrc == Str(<<"i","n","t","e","g","e","r">>)

Examples == {SelectStarSrc, CreateTableSrc, SelectHashSrc, ItsSrc,
             QuotedIdentSrc, TwoPeriodsSrc, ExponentSrc, WhiteSpaceSrc,
             IdentifierSrc, AbcSrc, IntegerSrc}

Sources ==
    SeqsUpTo(Alphabet, MaxLen) \cup Examples
        \cup UNION {CaseVariants(keywords[i]) : i \in 1..Len(keywords)}

-----------------------------------------------------------------------------
(* lex as a state machine: one step per iteration of the driver loop *)

LMIdle ==
    /\ lmSource = <<>>
    /\ lmIc = Cursor(0, Location(0, 0))
    /\ lmOptions = <<>>
    /\ lmValue = <<>>
    /\ lmMatch = <<>>
    /\ lmSkip = {}
    /\ lmPtr = 0
    /\ lmPc = "idle"

Init ==
    /\ source \in Sources
    /\ cur = Cursor(0, Location(0, 0))
    /\ tokens = <<>>
    /\ pc = "lexing"
    /\ result = Nil
    /\ err = Nil
    /\ applied = 0
    /\ LMIdle

\* The effect of an iteration whose inner loop ended with o, lexer l being
\* the first to succeed: the cursor moves to the one it returned and its
\* token, if any, is appended.
Accepted(l, o) ==
    /\ o.kind = "ok"
    /\ o.lexer = l
    /\ cur' = o.ret.cur
    /\ tokens' = IF o.ret.token # Nil
                 THEN Append(tokens, o.ret.token[1])
                 ELSE tokens

AcceptKeyword ==
    /\ pc = "lexing"
    /\ cur.Pointer < Len(source)
    /\ Accepted("lexKeyword", tryLexers(source, cur, 1))
    /\ applied' = applied + 1
    /\ UNCHANGED <<source, pc, result, err, lmVars>>

AcceptSymbol ==
    /\ pc = "lexing"
    /\ cur.Pointer < Len(source)
    /\ Accepted("lexSymbol", tryLexers(source, cur, 1))
    /\ applied' = applied + 1
    /\ UNCHANGED <<source, pc, result, err, lmVars>>

AcceptString ==
    /\ pc = "lexing"
    /\ cur.Pointer < Len(source)
    /\ Accepted("lexString", tryLexers(source, cur, 1))
    /\ applied' = applied + 1
    /\ UNCHANGED <<source, pc, result, err, lmVars>>

AcceptNumeric ==
    /\ pc = "lexing"
    /\ cur.Pointer < Len(source)
    /\ Accepted("lexNumeric", tryLexers(source, cur, 1))
    /\ applied' = applied + 1
    /\ UNCHANGED <<source, pc, result, err, lmVars>>

AcceptIdentifier ==
    /\ pc = "lexing"
    /\ cur.Pointer < Len(source)
    /\ Accepted("lexIdentifier", tryLexers(source, cur, 1))
    /\ applied' = applied + 1
    /\ UNCHANGED <<source, pc, result, err, lmVars>>

\* A failure that hands back the tokens accepted so far.
NoMatch_partialResult(o) ==
    /\ o.kind # "ok"
    /\ pc' = "error"
    /\ result' = Ptr(tokens)
    /\ err' = Ptr(Errorf(IF Len(tokens) > 0
                         THEN After \o tokens[Len(tokens)].Value
                         ELSE <<>>,
                         cur.Loc.Line, cur.Loc.Col))

\* The effect of an iteration whose inner loop ended with o, no lexer having
\* succeeded: lex returns nil and the error (a panic inside a lexer ends the
\* pass without a result instead).
NoMatch(o) ==
    /\ o.kind # "ok"
    /\ IF o.kind = "panic"
       THEN pc' = "panic" /\ UNCHANGED <<result, err>>
       ELSE /\ pc' = "error"
            /\ result' = Nil
            /\ err' = Ptr(Errorf(IF Len(tokens) > 0
                                 THEN After \o tokens[Len(tokens)].Value
                                 ELSE <<>>,
                                 cur.Loc.Line, cur.Loc.Col))

LexNoMatch ==
    /\ pc = "lexing"
    /\ cur.Pointer < Len(source)
    /\ NoMatch(tryLexers(source, cur, 1))
    /\ UNCHANGED <<source, cur, tokens, applied, lmVars>>

\* The loop condition fails: lex returns the tokens and a nil error.
LexReturn ==
    /\ pc = "lexing"
    /\ ~(cur.Pointer < Len(source))
    /\ pc' = "done"
    /\ result' = Ptr(tokens)
    /\ err' = Nil
    /\ UNCHANGED <<source, cur, tokens, applied, lmVars>>

Next ==
    \/ AcceptKeyword
    \/ AcceptSymbol
    \/ AcceptString
    \/ AcceptNumeric
    \/ AcceptIdentifier
    \/ LexNoMatch
    \/ LexReturn

Spec == Init /\ [][Next]_vars

-----------------------------------------------------------------------------
(* longestMatch as a state machine: one step per iteration of its outer     *)
(* loop, over drawn sources, cursors and option lists                       *)

\* Longest source text, longest option and most options of a drawn call.
LMMaxLen == 2

MaxOptLen == 2

MaxOptions == 2

LMAlphabet == {Chr("a"), Chr("A"), Chr("b")}

\* Option lists without repetition, of at most n options from the set S.
RECURSIVE DistinctSeqs(_, _)
DistinctSeqs(S, n) ==
    IF n = 0 THEN {<<>>}
    ELSE {<<>>} \cup {<<o>> \o t : o \in S, t \in DistinctSeqs(S, n - 1)}

NoRepeat(t) == \A i, j \in 1..Len(t) : t[i] = t[j] => i = j

\* The drawn option lists: lower-case options (the empty one too), and the
\* two lists the lexers pass.
OptionLists ==
    {t \in DistinctSeqs(SeqsUpTo({Chr("a"), Chr("b")}, MaxOptLen),
                        MaxOptions) : NoRepeat(t)}
        \cup {keywords, symbols}

LMSources ==
    SeqsUpTo(LMAlphabet, LMMaxLen)
        \cup {Str(<<"I","n","T","o">>), Str(<<"i","n","t",",">>),
              Str(<<"*",";">>)}

LexIdle ==
    /\ source = <<>>
    /\ cur = Cursor(0, Location(0, 0))
    /\ tokens = <<>>
    /\ pc = "idle"
    /\ result = Nil
    /\ err = Nil
    /\ applied = 0

InitLM ==
    /\ lmSource \in LMSources
    /\ lmIc \in {Cursor(p, Location(0, p)) : p \in 0..Len(lmSource)}
    /\ lmOptions \in OptionLists
    /\ lmValue = <<>>
    /\ lmMatch = <<>>
    /\ lmSkip = {}
    /\ lmPtr = lmIc.Pointer
    /\ lmPc = "loop"
    /\ LexIdle

\* The effect of an iteration of the outer loop that left s.
LMStepped(s) ==
    /\ lmValue' = s.value
    /\ lmMatch' = s.match
    /\ lmSkip' = s.skip
    /\ lmPtr' = lmPtr + 1
    /\ lmPc' = IF s.panic THEN "panic" ELSE IF s.done THEN "done" ELSE "loop"

LMStep ==
    /\ lmPc = "loop"
    /\ lmPtr < Len(lmSource)
    /\ LMStepped(matchStep(lmSource, lmPtr, lmOptions, lmValue, lmMatch,
                           lmSkip))
    /\ UNCHANGED <<lmSource, lmIc, lmOptions, lexVars>>

\* The loop condition fails: longestMatch returns match.
LMReturn ==
    /\ lmPc = "loop"
    /\ ~(lmPtr < Len(lmSource))
    /\ lmPc' = "done"
    /\ UNCHANGED <<lmSource, lmIc, lmOptions, lmValue, lmMatch, lmSkip,
                   lmPtr, lexVars>>

NextLM ==
    \/ LMStep
    \/ LMReturn

SpecLM == InitLM /\ [][NextLM]_vars

-----------------------------------------------------------------------------
(* Both machines side by side: a behaviour is a pass of lex or a call of    *)
(* longestMatch                                                              *)

InitAll == Init \/ InitLM

NextAll ==
    \/ AcceptKeyword
    \/ AcceptSymbol
    \/ AcceptString
    \/ AcceptNumeric
    \/ AcceptIdentifier
    \/ LexNoMatch
    \/ LexReturn
    \/ LMStep
    \/ LMReturn

SpecAll == InitAll /\ [][NextAll]_vars

-----------------------------------------------------------------------------
(* Properties *)

\* The kinds and values of a token list, in order.
KindsValues(toks) == [i \in 1..Len(toks) |-> <<toks[i].Kind, toks[i].Value>>]

\* Every lexer declines at cursor c of src.
AllDecline(src, c) == \A i \in 1..Len(lexers) : ~Apply(lexers[i], src, c).ok

\* The step is an accepted lexer application; it appended a token.
AcceptedStep == applied' = applied + 1

AppendedToken == Len(tokens') = Len(tokens) + 1

LastToken(toks) == toks[Len(toks)]

SelectStarTokens ==
    << <<KeywordKind, SelectKeyword>>, <<SymbolKind, AsteriskSymbol>>,
       <<KeywordKind, FromKeyword>>, <<IdentifierKind, Str(<<"f","o","o">>)>>,
       <<SymbolKind, SemicolonSymbol>> >>

CreateTableTokens ==
    << <<KeywordKind, CreateKeyword>>, <<KeywordKind, TableKeyword>>,
       <<IdentifierKind, Str(<<"f","o","o">>)>>,
       <<SymbolKind, LeftParenSymbol>>, <<IdentifierKind, Str(<<"i","d">>)>>,
       <<KeywordKind, IntKeyword>>, <<SymbolKind, CommaSymbol>>,
       <<IdentifierKind, Str(<<"n","a","m","e">>)>>,
       <<KeywordKind, TextKeyword>>, <<SymbolKind, RightParenSymbol>>,
       <<SymbolKind, SemicolonSymbol>> >>

\* lex returned exactly the token list whose kinds and values are kv.
Returned(kv) ==
    /\ pc = "done"
    /\ err = Nil
    /\ result # Nil
    /\ KindsValues(result[1]) = kv

\* C1: lex succeeds on `select * from foo;` and on
\* `create table foo (id int, name text);` and returns exactly the listed
\* tokens, in source order (the token columns increase), white space giving
\* no token.
C1_EndToEnd ==
    /\ (source = SelectStarSrc /\ pc # "lexing") => Returned(SelectStarTokens)
    /\ (source = CreateTableSrc /\ pc # "lexing") =>
            Returned(CreateTableTokens)
    /\ (source \in {SelectStarSrc, CreateTableSrc}) =>
            \A i, j \in 1..Len(tokens) :
                i < j => tokens[i].Loc.Col < tokens[j].Loc.Col

C1_Witness == source = CreateTableSrc /\ pc = "done" /\ Len(tokens) = 11

\* C2: whenever all five lexers decline at the cursor, lex returns nil
\* tokens and an error that names the cursor's line and column and, if a
\* token was accepted before, the value of the latest one as hint; for
\* `select # from foo;` the error is at 0:7 with hint `select`.
C2_Failure ==
    /\ [][(pc = "lexing" /\ cur.Pointer < Len(source)
              /\ AllDecline(source, cur))
          => (pc' = "error" /\ result' = Nil /\ err' # Nil)]_vars
    /\ [](pc = "error" =>
            /\ result = Nil
            /\ err # Nil
            /\ AllDecline(source, cur)
            /\ err[1].Line = cur.Loc.Line
            /\ err[1].Col = cur.Loc.Col
            /\ err[1].hint = IF Len(tokens) > 0
                             THEN After \o LastToken(tokens).Value
                             ELSE <<>>)
    /\ []((source = SelectHashSrc /\ pc # "lexing") =>
            /\ pc = "error"
            /\ err = Ptr(Errorf(After \o SelectKeyword, 0, 7)))

C2_Witness ==
    /\ source = SelectHashSrc
    /\ pc = "error"
    /\ cur.Pointer = 7
    /\ Len(tokens) = 1

\* C3: every accepted lexer application strictly increases the cursor
\* offset, the offset never decreases nor passes the end of the source, so
\* at most len(source) applications are accepted: every iteration of the
\* driver loop accepts or returns, so lex terminates.
C3_Progress ==
    /\ [][/\ cur'.Pointer >= cur.Pointer
          /\ AcceptedStep => cur'.Pointer > cur.Pointer
          /\ pc = "lexing" => (AcceptedStep \/ pc' # "lexing")]_vars
    /\ [](applied <= cur.Pointer /\ cur.Pointer <= Len(source))
    /\ [](applied <= Len(source))

C3_Witness == pc = "done" /\ applied = Len(source) /\ applied = MaxLen

\* C4: lexing `'it''s'` succeeds with exactly one token, a String of value
\* `it's`.
C4_ItsString ==
    (source = ItsSrc /\ pc # "lexing") =>
        Returned(<< <<StringKind, Str(<<"i","t","'","s">>)>> >>)

\* C5: lexing `"a""b"` gives exactly one token, an Identifier of value
\* `a"b` (a doubled quote collapsed to one, the case kept).
C5_QuotedIdentifier ==
    (source = QuotedIdentSrc /\ pc # "lexing") =>
        Returned(<< <<IdentifierKind, Str(<<"a","\"","b">>)>> >>)

\* C6 as stated: on `1.2.3` the numeric lexer accepts `1.2` and lex fails
\* at the second period, 0:3.
C6_Original ==
    (source = TwoPeriodsSrc /\ pc # "lexing") =>
        /\ pc = "error"
        /\ KindsValues(tokens) =
              << <<NumericKind, Str(<<"1",".","2">>)>> >>
        /\ err[1].Line = 0
        /\ err[1].Col = 3

\* C6 amended: on `1.2.3` the numeric lexer declines at offset 0 (the second
\* period makes it give the number up), no token is accepted, and lex fails
\* at 0:0 without a hint.
C6_SecondPeriodDeclines ==
    (source = TwoPeriodsSrc) =>
        /\ ~lexNumeric(source, Cursor(0, Location(0, 0))).ok
        /\ tokens = <<>>
        /\ pc # "lexing" =>
              /\ pc = "error"
              /\ result = Nil
              /\ err = Ptr(Errorf(<<>>, 0, 0))

C6_Witness == source = TwoPeriodsSrc /\ pc = "error" /\ cur.Pointer = 0

\* C7: lexing `1.5e-10` gives exactly one token, a Numeric whose value is
\* the raw text; every Numeric token's value is the text between the cursor
\* before and the cursor after, a sign after the exponent marker included.
C7_Exponent ==
    /\ []((source = ExponentSrc /\ pc # "lexing") =>
            Returned(<< <<NumericKind, ExponentSrc>> >>))
    /\ [][(AppendedToken /\ LastToken(tokens').Kind = NumericKind) =>
            /\ LastToken(tokens').Value =
                  Slice(source, cur.Pointer, cur'.Pointer)
            /\ \A i \in (cur.Pointer + 2)..Len(source) :
                  (/\ source[i] \in {Minus, Plus}
                   /\ source[i - 1] = ExpMarker
                   /\ i - 1 <= cur'.Pointer) => i <= cur'.Pointer]_vars

C7_Witness ==
    /\ source = ExponentSrc
    /\ pc = "done"
    /\ Len(tokens) = 1
    /\ cur.Pointer = 7

\* The options that equal the lower-cased text of src at offset p.
Matching(src, p, options) ==
    {o \in {options[i] : i \in 1..Len(options)} :
        /\ p + Len(o) <= Len(src)
        /\ o = ToLower(Slice(src, p, p + Len(o)))}

\* C8: for distinct non-empty lower-case options, longestMatch returns the
\* longest option equal to the lower-cased text at the cursor, the empty
\* string when there is none, and never anything else.
C8_LongestMatch ==
    (lmPc = "done" /\ \A i \in 1..Len(lmOptions) : lmOptions[i] # <<>>) =>
        LET M == Matching(lmSource, lmIc.Pointer, lmOptions) IN
        /\ M = {} => lmMatch = <<>>
        /\ M # {} =>
              /\ lmMatch \in M
              /\ \A o \in M : Len(o) <= Len(lmMatch)

C8_Witness ==
    /\ lmPc = "done"
    /\ lmSource = Str(<<"A","b">>)
    /\ lmIc.Pointer = 0
    /\ lmOptions = <<Str(<<"a","b">>), Str(<<"a">>)>>
    /\ lmMatch = Str(<<"a","b">>)

\* C9: a Keyword token, and an Identifier token whose text does not start
\* with a double quote, has the lower-cased text it matched as value; a
\* reserved word alone, in any mix of cases, lexes to one Keyword token.
C9_CaseFolding ==
    /\ [][(/\ AppendedToken
           /\ LastToken(tokens').Kind \in {KeywordKind, IdentifierKind}
           /\ source[cur.Pointer + 1] # DoubleQuote) =>
            LastToken(tokens').Value =
                ToLower(Slice(source, cur.Pointer, cur'.Pointer))]_vars
    /\ [](\A k \in 1..Len(keywords) :
            (source \in CaseVariants(keywords[k]) /\ pc # "lexing") =>
                Returned(<< <<KeywordKind, keywords[k]>> >>))

C9_Witness ==
    /\ source = Str(<<"S","e","L","e","C","t">>)
    /\ pc = "done"
    /\ KindsValues(tokens) = << <<KeywordKind, SelectKeyword>> >>

\* C10: an accepted lexer application that consumes k bytes and no
\* white-space newline raises the column by exactly k and leaves the line
\* unchanged.
C10_ColumnTracksOffset ==
    [][(AcceptedStep /\ source[cur.Pointer + 1] # Newline) =>
          /\ cur'.Loc.Col = cur.Loc.Col + (cur'.Pointer - cur.Pointer)
          /\ cur'.Loc.Line = cur.Loc.Line]_vars

\* A lexer result r for the cursor c is not a decline, or it carries the
\* cursor c itself and no token.
DeclineKeeps(r, c) == ~r.ok => (r.cur = c /\ r.token = Nil)

\* C11: whenever one of the five lexers, or lexCharacterDelimited with
\* either delimiter, declines at an offset inside the source, it returns the
\* cursor it was given (offset, line and column) and no token; a pass that
\* ends because all declined leaves the driver's cursor where it was.
C11_DeclineKeepsCursor ==
    /\ [](pc = "lexing" =>
            \A p \in 0..(Len(source) - 1) :
                /\ \A i \in 1..Len(lexers) :
                      DeclineKeeps(Apply(lexers[i], source,
                                         Cursor(p, cur.Loc)),
                                   Cursor(p, cur.Loc))
                /\ \A d \in {Apostrophe, DoubleQuote} :
                      DeclineKeeps(lexCharacterDelimited(source,
                                       Cursor(p, cur.Loc), d),
                                   Cursor(p, cur.Loc)))
    /\ [][pc' = "error" => cur' = cur]_vars

C11_Witness ==
    /\ source = Str(<<",","1","e">>)
    /\ pc = "error"
    /\ cur = Cursor(1, Location(0, 1))
    /\ ~lexNumeric(source, cur).ok
    /\ ~lexSymbol(source, cur).ok

WhiteSpace == {Newline, Tab, Space}

\* C12: when the byte at the cursor is a space, a tab or a newline, the
\* iteration is accepted by lexSymbol without a token and the offset rises by
\* exactly one; for a space or a tab the column rises by one and the line
\* stays, for a newline the line rises by one and the column becomes 0.  No
\* token other than a delimited literal has a white-space byte in its value.
C12_WhiteSpace ==
    /\ [][(/\ pc = "lexing"
           /\ cur.Pointer < Len(source)
           /\ source[cur.Pointer + 1] \in WhiteSpace) =>
            /\ lexSymbol(source, cur).ok
            /\ lexSymbol(source, cur).token = Nil
            /\ AcceptedStep
            /\ tokens' = tokens
            /\ cur'.Pointer = cur.Pointer + 1
            /\ cur'.Loc = IF source[cur.Pointer + 1] = Newline
                          THEN Location(cur.Loc.Line + 1, 0)
                          ELSE Location(cur.Loc.Line, cur.Loc.Col + 1)]_vars
    /\ [](\A i \in 1..Len(tokens) :
            tokens[i].Kind # StringKind =>
                \A k \in 1..Len(tokens[i].Value) :
                    tokens[i].Value[k] \notin WhiteSpace)

C12_Witness ==
    /\ source = WhiteSpaceSrc
    /\ pc = "done"
    /\ Len(tokens) = 3
    /\ cur = Cursor(6, Location(1, 2))

\* The line and the column of the byte at offset p of src: the newlines
\* before it, and its distance from the latest of them.
LineOf(src, p) == Cardinality({i \in 1..p : src[i] = Newline})

ColOf(src, p) ==
    LET nl == {i \in 1..p : src[i] = Newline}
    IN  IF nl = {} THEN p ELSE p - (CHOOSE i \in nl : \A j \in nl : j <= i)

\* The index after the run of bytes d of src that starts at index i.
RunEnd(src, i, d) ==
    CHOOSE j \in i..(Len(src) + 1) :
        /\ \A k \in i..(j - 1) : src[k] = d
        /\ j = Len(src) + 1 \/ src[j] # d

\* The text of src at offset p opens with the delimiter d and ends before a
\* terminating one: behind the opening delimiter every run of delimiters is
\* of even length, so each of them is a doubled one.
Unterminated(src, p, d) ==
    /\ p < Len(src)
    /\ src[p + 1] = d
    /\ \A i \in (p + 2)..Len(src) :
          (src[i] = d /\ (i = p + 2 \/ src[i - 1] # d)) =>
              (RunEnd(src, i, d) - i) % 2 = 0

\* C13: when the text at the cursor opens with an apostrophe or a double
\* quote and ends before a terminating delimiter, lexCharacterDelimited
\* declines and lex fails with an error that carries the line and the column
\* of the opening delimiter.
C13_Unterminated ==
    [][\A d \in {Apostrophe, DoubleQuote} :
          (pc = "lexing" /\ Unterminated(source, cur.Pointer, d)) =>
              /\ ~lexCharacterDelimited(source, cur, d).ok
              /\ pc' = "error"
              /\ result' = Nil
              /\ err'[1].Line = LineOf(source, cur.Pointer)
              /\ err'[1].Col = ColOf(source, cur.Pointer)]_vars

\* C14: for the source that is a lone period the numeric lexer declines, no
\* Numeric token is produced and lex fails with an error at the period.
C14_LonePeriod ==
    (source = <<Period>> /\ pc # "lexing") =>
        /\ ~lexNumeric(source, Cursor(0, Location(0, 0))).ok
        /\ \A i \in 1..Len(tokens) : tokens[i].Kind # NumericKind
        /\ pc = "error"
        /\ result = Nil
        /\ err = Ptr(Errorf(<<>>, 0, 0))

\* The ASCII letters, and the bytes that continue an unquoted identifier:
\* letters, the digits 1 to 9, `$` and `_`.
Letters == (UpperA..UpperZ) \cup (LowerA..LowerZ)

Continuation == Letters \cup ((Digit0 + 1)..Digit9) \cup {Dollar, Underscore}

\* The offset behind the longest run of continuation bytes of src that
\* follows the byte at offset p.
IdentifierEnd(src, p) ==
    CHOOSE q \in (p + 1)..Len(src) :
        /\ \A k \in (p + 2)..q : src[k] \in Continuation
        /\ q = Len(src) \/ src[q + 1] \notin Continuation

\* What lexIdentifier returned, r, is the Identifier token over the offsets
\* p to q of src.
IdentifierOver(r, src, p, q) ==
    /\ r.ok
    /\ r.token # Nil
    /\ r.token[1].Kind = IdentifierKind
    /\ r.token[1].Value = ToLower(Slice(src, p, q))
    /\ r.cur.Pointer = q

C16_CursorAfterClosing ==
    /\ [][(AcceptedStep /\ source[cur.Pointer + 1] \in {Apostrophe,
                                                         DoubleQuote}) =>
            /\ cur'.Pointer >= cur.Pointer + 2
            /\ source[cur'.Pointer] = source[cur.Pointer + 1]
            /\ LastToken(tokens').Kind = StringKind]_vars
    /\ []((source = AbcSrc /\ pc # "lexing") =>
            /\ Returned(<< <<StringKind, Str(<<"a","b","c">>)>> >>)
            /\ cur.Pointer = Len(AbcSrc))

\* The index of the delimiter that closes the literal opened at offset p of
\* src by the delimiter d: the last one of the first run of delimiters of
\* odd length behind the opening one.
ClosingIndex(src, p, d) ==
    LET ends == {i \in (p + 2)..Len(src) :
                    /\ src[i] = d
                    /\ i = Len(src) \/ src[i + 1] # d
                    /\ \E k \in (p + 2)..i :
                          /\ \A j \in k..i : src[j] = d
                          /\ k = p + 2 \/ src[k - 1] # d
                          /\ (i - k + 1) % 2 = 1}
    IN  CHOOSE i \in ends : \A j \in ends : i <= j

\* The text t with every doubled delimiter d replaced by one.
RECURSIVE Unescape(_, _)
Unescape(t, d) ==
    IF t = <<>> THEN <<>>
    ELSE IF Len(t) >= 2 /\ t[1] = d /\ t[2] = d
    THEN <<d>> \o Unescape(SubSeq(t, 3, Len(t)), d)
    ELSE <<t[1]>> \o Unescape(Tail(t), d)

\* C17: the value of every token of an accepted delimited scan is the text
\* between the opening and the closing delimiter with each doubled
\* delimiter replaced by exactly one and every other byte copied.
C17_EscapedPair ==
    [][(AppendedToken /\ LastToken(tokens').Kind = StringKind) =>
          LastToken(tokens').Value =
              Unescape(SubSeq(source, cur.Pointer + 2,
                              ClosingIndex(source, cur.Pointer,
                                           source[cur.Pointer + 1]) - 1),
                       source[cur.Pointer + 1])]_vars

\* C18: for distinct non-empty options the longestMatch that overwrites the
\* match on every equality returns what the earlier revision returns, which
\* overwrites only by a longer option: every recorded equality is longer
\* than the match recorded before it.
C18_RevisionsAgree ==
    /\ []((lmPc = "done" /\ \A i \in 1..Len(lmOptions) : lmOptions[i] # <<>>)
            => /\ ~prevLongestMatch(lmSource, lmIc, lmOptions).panic
               /\ lmMatch = prevLongestMatch(lmSource, lmIc, lmOptions).match)
    /\ [][(lmPc' # "panic" /\ lmMatch' # lmMatch) =>
            Len(lmMatch') > Len(lmMatch)]_vars

C18_Witness ==
    /\ lmPc = "done"
    /\ lmSource = Str(<<"A","b">>)
    /\ lmIc.Pointer = 0
    /\ lmOptions = <<Str(<<"a">>), Str(<<"a","b">>)>>
    /\ lmMatch = Str(<<"a","b">>)
    /\ prevLongestMatch(lmSource, lmIc, lmOptions).match = lmMatch

NonEmptyOptions(options) == \A i \in 1..Len(options) : options[i] # <<>>

\* C19: in a pass of lex the cursor offset never passes len(source) and no
\* lexer panics on an index or a slice out of range; in longestMatch with
\* non-empty options (the keywords and the symbols are) every option not
\* yet in skip is strictly longer than the probe when an iteration starts,
\* so option[:len(value)] is in range after the probe has grown by one.
C19_InBounds ==
    /\ cur.Pointer <= Len(source)
    /\ pc # "panic"
    /\ (pc = "lexing" /\ cur.Pointer < Len(source)) =>
          \A i \in 1..Len(lexers) : ~Apply(lexers[i], source, cur).panic
    /\ NonEmptyOptions(keywords) /\ NonEmptyOptions(symbols)
    /\ NonEmptyOptions(lmOptions) =>
          /\ lmPc # "panic"
          /\ lmPtr <= Len(lmSource)
          /\ lmPc = "loop" =>
                \A i \in 1..Len(lmOptions) :
                    lmOptions[i] \notin lmSkip =>
                        Len(lmOptions[i]) > Len(lmValue)

C19_Witness ==
    /\ lmPc = "loop"
    /\ lmSource = Str(<<"I","n","T","o">>)
    /\ lmOptions = keywords
    /\ lmPtr = 3
    /\ lmValue = IntKeyword
    /\ lmMatch = IntKeyword
    /\ IntoKeyword \notin lmSkip

\* The string k is a prefix of the string v.
IsPrefix(k, v) == Len(k) <= Len(v) /\ SubSeq(v, 1, Len(k)) = k

\* C20: whenever the text at the cursor begins, in any mix of cases, with a
\* keyword, the iteration appends the longest such keyword as a Keyword
\* token and moves the cursor behind it, whatever follows; `integer` gives
\* Keyword `int` then Identifier `eger`, `into` gives Keyword `into`.  No
\* Identifier token has a value that begins with a keyword.
C20_NoWordBoundary ==
    /\ [][(/\ pc = "lexing"
           /\ cur.Pointer < Len(source)
           /\ Matching(source, cur.Pointer, keywords) # {}) =>
            /\ AppendedToken
            /\ LastToken(tokens').Kind = KeywordKind
            /\ LastToken(tokens').Value
                  \in Matching(source, cur.Pointer, keywords)
            /\ \A k \in Matching(source, cur.Pointer, keywords) :
                  Len(k) <= Len(LastToken(tokens').Value)
            /\ cur'.Pointer =
                  cur.Pointer + Len(LastToken(tokens').Value)]_vars
    /\ [](\A i \in 1..Len(tokens) :
            tokens[i].Kind = IdentifierKind =>
                \A k \in 1..Len(keywords) :
                    ~IsPrefix(keywords[k], tokens[i].Value))
    /\ []((source = IntegerSrc /\ pc # "lexing") =>
            Returned(<< <<KeywordKind, IntKeyword>>,
                        <<IdentifierKind, Str(<<"e","g","e","r">>)>> >>))
    /\ []((source = IntoKeyword /\ pc # "lexing") =>
            Returned(<< <<KeywordKind, IntoKeyword>> >>))

C20_Witness ==
    /\ source = IntegerSrc
    /\ pc = "done"
    /\ KindsValues(tokens) =
          << <<KeywordKind, IntKeyword>>,
             <<IdentifierKind, Str(<<"e","g","e","r">>)>> >>

====
